---- MODULE Spec2Model ----
(***************************************************************************)
(* Schema object model of mlcommons_box/runner/objects/base.py:            *)
(* field descriptors, StandardObject, ListOfObject and DictOfObject with   *)
(* default / from_primitive / merge, over an explicit Python heap so that  *)
(* in-place mutation and aliasing of lists, dicts and instances are        *)
(* visible.                                                                *)
(***************************************************************************)
EXTENDS Integers, Sequences, FiniteSets, TLC

VARIABLES heap, slots, pre, last, nops, order

vars == <<heap, slots, pre, last, nops, order>>

\* Number of top-level calls explored in one behaviour.
MaxOps == 3

(***************************************************************************)
(* Python values.  A value is a pair <<tag, payload>>: None, an int, or a  *)
(* reference to a heap cell.  A heap cell is <<kind, class, content>>:     *)
(*   <<"list", "", seq of values>>          a Python list                  *)
(*   <<"dict", "", seq of <<key, value>>>>  a Python dict, insertion order *)
(*   <<"obj",  cls, seq of <<attr, value>>>> a StandardObject instance     *)
(*   <<"lobj", cls, seq of values>>         a ListOfObject and its _data   *)
(*   <<"dobj", cls, seq of <<key, value>>>> a DictOfObject and its _data   *)
(***************************************************************************)
None == <<"none", 0>>
IntV(n) == <<"int", n>>
Ref(a) == <<"ref", a>>

IsRef(v) == v[1] = "ref"
KindOf(h, v) == IF IsRef(v) THEN h[v[2]][1] ELSE v[1]
ClassOf(h, v) == IF IsRef(v) THEN h[v[2]][2] ELSE ""
Content(h, v) == h[v[2]][3]

IsList(h, v) == KindOf(h, v) = "list"
IsDict(h, v) == KindOf(h, v) = "dict"
IsBaseObject(h, v) == KindOf(h, v) \in {"obj", "lobj", "dobj"}

\* Python truth value of the values that reach `base or []` / `base or {}`.
Falsy(h, v) ==
    \/ v = None
    \/ v[1] = "int" /\ v[2] = 0
    \/ IsRef(v) /\ KindOf(h, v) \in {"list", "dict"} /\ Content(h, v) = <<>>

\* Ordered key/value pairs (dict entries, instance attributes).
HasKey(ps, k) == \E i \in 1..Len(ps) : ps[i][1] = k
Get(ps, k) == ps[CHOOSE i \in 1..Len(ps) : ps[i][1] = k][2]
Put(ps, k, v) ==
    IF HasKey(ps, k)
    THEN [i \in 1..Len(ps) |-> IF ps[i][1] = k THEN <<k, v>> ELSE ps[i]]
    ELSE Append(ps, <<k, v>>)
\* dict.get(k, None)
GetOrNone(ps, k) == IF HasKey(ps, k) THEN Get(ps, k) ELSE None

SetContent(h, a, c) == [h EXCEPT ![a] = <<h[a][1], h[a][2], c>>]
setattr(h, a, name, v) == SetContent(h, a, Put(h[a][3], name, v))
hasattr(h, a, name) == HasKey(h[a][3], name)
getattr(h, a, name) == Get(h[a][3], name)

\* Outcome of running a piece of code: the heap it leaves, the exception it
\* ended in ("" for a normal return) and the returned value.
Ok(h, v) == [h |-> h, err |-> "", ret |-> v]
Raise(h, e) == [h |-> h, err |-> e, ret |-> None]

(***************************************************************************)
(* Primitive documents, written as literals and materialised in the heap   *)
(* (what a YAML/JSON loader returns).                                      *)
(***************************************************************************)
LList(s) == <<"list", s>>
LDict(ps) == <<"dict", ps>>

RECURSIVE Mat(_, _)
RECURSIVE MatSeq(_, _, _)
RECURSIVE MatPairs(_, _, _)
Mat(h, lit) ==
    IF lit[1] \in {"int", "none"} THEN Ok(h, lit)
    ELSE IF lit[1] = "list"
    THEN LET r == MatSeq(h, lit[2], <<>>)
         IN  Ok(Append(r.h, <<"list", "", r.ret>>), Ref(Len(r.h) + 1))
    ELSE LET r == MatPairs(h, lit[2], <<>>)
         IN  Ok(Append(r.h, <<"dict", "", r.ret>>), Ref(Len(r.h) + 1))
MatSeq(h, s, acc) ==
    IF Len(s) = 0 THEN Ok(h, acc)
    ELSE LET r == Mat(h, Head(s))
         IN  MatSeq(r.h, Tail(s), Append(acc, r.ret))
MatPairs(h, ps, acc) ==
    IF Len(ps) = 0 THEN Ok(h, acc)
    ELSE LET r == Mat(h, Head(ps)[2])
         IN  MatPairs(r.h, Tail(ps), Append(acc, <<Head(ps)[1], r.ret>>))

(***************************************************************************)
(* The schema under test: class declarations written against base.py.      *)
(*   class C(StandardObject): x = PrimitiveField(1), y = PrimitiveField(2) *)
(*   class D(DictOfObject): value_class = C                                *)
(*   class L(ListOfObject): item_class = C                                 *)
(*   class P(StandardObject): x = PrimitiveField(7),                       *)
(*        e = ObjectField(C, embedded=True)                                *)
(*        (declared in the order held by the variable order)               *)
(*   class Q(StandardObject): v = PrimitiveField(0), d = ObjectField(D)    *)
(*   class T(StandardObject): name = PrimitiveField(),                     *)
(*        params = PrimitiveField({"a": 1}), tags = PrimitiveField([1]),   *)
(*        opts = PrimitiveField()                                          *)
(*   class SubT(T): pass                                                   *)
(***************************************************************************)
StdClasses == {"T", "SubT", "P", "Q", "C"}
RootClasses == {"T", "SubT", "P", "Q", "D", "L"}

\* cls.__mro__ membership: Subclasses(c) are the classes whose instances
\* satisfy isinstance(_, c).
Subclasses(c) == IF c = "T" THEN {"T", "SubT"} ELSE {c}

\* Heap addresses of the list and the dict that T's descriptors hold as
\* default_value.
TagsDefaultAddr == 1
ParamsDefaultAddr == 2
TagsDefault == <<IntV(1)>>
ParamsDefault == << <<"a", IntV(1)>> >>

\* The declaration orders of P's fields.
POrders == { <<"x", "e">>, <<"e", "x">> }

\* cls.fields.keys(), in declaration order.
Fields(cls) ==
    IF cls \in {"T", "SubT"} THEN <<"name", "params", "tags", "opts">>
    ELSE IF cls = "P" THEN order
    ELSE IF cls = "Q" THEN <<"v", "d">>
    ELSE <<"x", "y">>

PrimitiveField(default) ==
    [kind |-> "prim", default_value |-> default, object_class |-> "",
     embedded |-> FALSE]
ObjectField(obj_class, embedded) ==
    [kind |-> "obj", default_value |-> None, object_class |-> obj_class,
     embedded |-> embedded]

\* cls.fields[name]
Fld(cls, name) ==
    IF cls \in {"T", "SubT"} THEN
        IF name = "params" THEN PrimitiveField(Ref(ParamsDefaultAddr))
        ELSE IF name = "tags" THEN PrimitiveField(Ref(TagsDefaultAddr))
        ELSE PrimitiveField(None)
    ELSE IF cls = "P" THEN
        IF name = "x" THEN PrimitiveField(IntV(7))
        ELSE ObjectField("C", TRUE)
    ELSE IF cls = "Q" THEN
        IF name = "v" THEN PrimitiveField(IntV(0))
        ELSE ObjectField("D", FALSE)
    ELSE IF name = "x" THEN PrimitiveField(IntV(1))
    ELSE PrimitiveField(IntV(2))

\* item_class / value_class of the collection classes.
item_class(cls) == "C"
value_class(cls) == "C"

\* cls(): a new instance.  StandardObject has no __init__; ListOfObject and
\* DictOfObject start with empty _data.
New(h, cls) ==
    LET kind == IF cls \in StdClasses THEN "obj"
                ELSE IF cls = "L" THEN "lobj" ELSE "dobj"
    IN  Ok(Append(h, <<kind, cls, <<>>>>), Ref(Len(h) + 1))

\* Variant: the check asks only for some BaseObject, not for the class.
isinstance_any_object(h, v, cls) == IsBaseObject(h, v)

\* isinstance(v, cls)
isinstance(h, v, cls) == IsBaseObject(h, v) /\ ClassOf(h, v) \in Subclasses(cls)

\* The documents loaded before any call.
DocLits ==
    << \* 1: a T document with a nested mapping, two lists
       LDict(<< <<"name", IntV(3)>>,
                <<"params", LDict(<< <<"k", LDict(<< <<"b", IntV(2)>> >>)>> >>)>>,
                <<"tags", LList(<<IntV(2)>>)>>,
                <<"opts", LList(<<IntV(4)>>)>> >>),
       \* 2: a T document with flat params, an empty tags list, null opts
       LDict(<< <<"params", LDict(<< <<"b", IntV(2)>> >>)>>,
                <<"tags", LList(<<>>)>>,
                <<"opts", None>> >>),
       \* 3: a T document whose params hold key k under key k
       LDict(<< <<"params",
                  LDict(<< <<"k", LDict(<< <<"k", LDict(<< <<"c", IntV(3)>> >>)>>,
                                            <<"a", IntV(1)>> >>)>> >>)>>,
                <<"tags", LList(<<IntV(2), IntV(1)>>)>> >>),
       \* 4: a P document with x and y
       LDict(<< <<"x", IntV(5)>>, <<"y", IntV(6)>> >>),
       \* 5: a P document without x
       LDict(<< <<"y", IntV(4)>> >>),
       \* 6: a Q document with a mapping at d
       LDict(<< <<"v", IntV(5)>>,
                <<"d", LDict(<< <<"k1", LDict(<< <<"y", IntV(3)>> >>)>>,
                                <<"k2", None>> >>)>> >>),
       \* 7: a D document with a null entry
       LDict(<< <<"k1", LDict(<< <<"y", IntV(2)>> >>)>>,
                <<"k2", LDict(<< <<"y", IntV(3)>> >>)>>,
                <<"k3", None>> >>),
       \* 8: an L document
       LList(<< LDict(<< <<"y", IntV(1)>> >>), None >>),
       \* 9: a D document
       LDict(<< <<"k1", LDict(<< <<"y", IntV(1)>> >>)>> >>)
    >>

InitMat ==
    MatSeq(<< <<"list", "", TagsDefault>>, <<"dict", "", ParamsDefault>> >>,
           DocLits, <<>>)
InitHeap == InitMat.h
Doc(i) == InitMat.ret[i]

\* The (class, document) pairs from_primitive is called with; the last ones
\* hand a document of the wrong shape.
Loads ==
    { <<"T", 1>>, <<"T", 2>>, <<"T", 3>>, <<"P", 4>>, <<"P", 5>>, <<"Q", 6>>,
      <<"D", 9>>, <<"D", 7>>, <<"L", 8>>, <<"T", 8>>, <<"L", 9>> }

(***************************************************************************)
(* default() and from_primitive().  Each operator runs the method on the   *)
(* instance at address a and returns the outcome.                          *)
(***************************************************************************)
RECURSIVE default(_, _)
RECURSIVE from_primitive(_, _, _)
RECURSIVE StandardObject_default_loop(_, _, _)
RECURSIVE StandardObject_from_primitive_loop(_, _, _, _)
RECURSIVE ListOfObject_from_primitive_loop(_, _, _, _)
RECURSIVE DictOfObject_from_primitive_loop(_, _, _, _)
RECURSIVE _embed_object_loop(_, _, _, _)
RECURSIVE _embed_object_loop_no_precedence(_, _, _, _)

\* ObjectField.get_default_value / PrimitiveField.get_default_value
get_default_value(h, fld) ==
    IF fld.kind = "prim" THEN Ok(h, fld.default_value)
    ELSE LET n == New(h, fld.object_class)
         IN  default(n.h, n.ret[2])

\* ObjectField.get_value_from_primitive / PrimitiveField.get_value_from_primitive
get_value_from_primitive(h, fld, primitive) ==
    IF fld.kind = "prim"
    THEN Ok(h, IF primitive # None THEN primitive ELSE fld.default_value)
    ELSE LET n == New(h, fld.object_class)
         IN  from_primitive(n.h, n.ret[2], primitive)

\* Variant: the child's attribute is copied even when the parent declares a
\* field of that name.
_embed_object_loop_no_precedence(h, a, obj, i) ==
    LET subflds == Fields(ClassOf(h, obj))
    IN  IF i > Len(subflds) THEN Ok(h, None)
        ELSE IF ~hasattr(h, obj[2], subflds[i]) THEN Raise(h, "AttributeError")
        ELSE _embed_object_loop_no_precedence(
                 setattr(h, a, subflds[i], getattr(h, obj[2], subflds[i])),
                 a, obj, i + 1)

\* StandardObject._embed_object(self, obj), from the child's field i on
_embed_object_loop(h, a, obj, i) ==
    LET subflds == Fields(ClassOf(h, obj))
        selfflds == Fields(h[a][2])
    IN  IF i > Len(subflds) THEN Ok(h, None)
        ELSE IF \E j \in 1..Len(selfflds) : selfflds[j] = subflds[i]
        THEN _embed_object_loop(h, a, obj, i + 1)
        ELSE IF ~hasattr(h, obj[2], subflds[i]) THEN Raise(h, "AttributeError")
        ELSE _embed_object_loop(
                 setattr(h, a, subflds[i], getattr(h, obj[2], subflds[i])),
                 a, obj, i + 1)

\* Variant: the guard on obj.fields is inverted, so nothing is copied.
_embed_object_inverted_guard(h, a, obj) ==
    IF KindOf(h, obj) # "obj" THEN Raise(h, "AttributeError")
    ELSE Ok(h, None)

_embed_object(h, a, obj) ==
    \* obj.fields: only a StandardObject has the attribute
    IF KindOf(h, obj) # "obj" THEN Raise(h, "AttributeError")
    ELSE _embed_object_loop(h, a, obj, 1)

\* StandardObject.default, from field i on
StandardObject_default_loop(h, a, i) ==
    LET cls == h[a][2]
        flds == Fields(cls)
    IN  IF i > Len(flds) THEN Ok(h, Ref(a))
        ELSE
        LET fld == Fld(cls, flds[i])
            m1 == get_default_value(h, fld)
        IN  IF m1.err # "" THEN m1
            ELSE
            LET h2 == setattr(m1.h, a, flds[i], m1.ret)
                m3 == IF fld.kind = "obj" /\ fld.embedded
                      THEN _embed_object(h2, a, m1.ret)
                      ELSE Ok(h2, None)
            IN  IF m3.err # "" THEN m3
                ELSE StandardObject_default_loop(m3.h, a, i + 1)

ListOfObject_default(h, a) == Ok(SetContent(h, a, <<>>), Ref(a))
DictOfObject_default(h, a) == Ok(SetContent(h, a, <<>>), Ref(a))

default(h, a) ==
    IF h[a][1] = "obj" THEN StandardObject_default_loop(h, a, 1)
    ELSE IF h[a][1] = "lobj" THEN ListOfObject_default(h, a)
    ELSE DictOfObject_default(h, a)

\* StandardObject.from_primitive, from field i on
StandardObject_from_primitive_loop(h, a, primitive, i) ==
    LET cls == h[a][2]
        flds == Fields(cls)
    IN  IF i > Len(flds) THEN Ok(h, Ref(a))
        ELSE
        LET fld == Fld(cls, flds[i])
        IN  IF fld.kind = "obj" /\ fld.embedded
            THEN LET m1 == get_value_from_primitive(h, fld, primitive)
                 IN  IF m1.err # "" THEN m1
                     ELSE
                     LET m2 == _embed_object(
                                   setattr(m1.h, a, flds[i], m1.ret), a, m1.ret)
                     IN  IF m2.err # "" THEN m2
                         ELSE StandardObject_from_primitive_loop(
                                  m2.h, a, primitive, i + 1)
            ELSE LET m1 == get_default_value(h, fld)
                     prim_fld_val == GetOrNone(Content(h, primitive), flds[i])
                     m2 == IF m1.err = "" /\ prim_fld_val # None
                           THEN get_value_from_primitive(m1.h, fld, prim_fld_val)
                           ELSE m1
                 IN  IF m2.err # "" THEN m2
                     ELSE StandardObject_from_primitive_loop(
                              setattr(m2.h, a, flds[i], m2.ret),
                              a, primitive, i + 1)

StandardObject_from_primitive(h, a, primitive) ==
    IF ~IsDict(h, primitive) THEN Raise(h, "ValueError")
    ELSE StandardObject_from_primitive_loop(h, a, primitive, 1)

\* ListOfObject.from_primitive, from item i on
ListOfObject_from_primitive_loop(h, a, primitive, i) ==
    IF i > Len(Content(h, primitive)) THEN Ok(h, Ref(a))
    ELSE
    LET item == Content(h, primitive)[i]
    IN  IF item = None
        THEN ListOfObject_from_primitive_loop(h, a, primitive, i + 1)
        ELSE
        LET n == New(h, item_class(h[a][2]))
            m == from_primitive(n.h, n.ret[2], item)
        IN  IF m.err # "" THEN m
            ELSE ListOfObject_from_primitive_loop(
                     SetContent(m.h, a, Append(m.h[a][3], m.ret)),
                     a, primitive, i + 1)

ListOfObject_from_primitive(h, a, primitive) ==
    IF ~IsList(h, primitive) THEN Raise(h, "ValueError")
    ELSE ListOfObject_from_primitive_loop(h, a, primitive, 1)

\* DictOfObject.from_primitive, from item i on; the method has no return
\* statement, so a normal return yields None.
DictOfObject_from_primitive_loop(h, a, primitive, i) ==
    IF i > Len(Content(h, primitive)) THEN Ok(h, None)
    ELSE
    LET key == Content(h, primitive)[i][1]
        value == Content(h, primitive)[i][2]
    IN  IF value = None
        THEN DictOfObject_from_primitive_loop(h, a, primitive, i + 1)
        ELSE
        LET n == New(h, value_class(h[a][2]))
            m == from_primitive(n.h, n.ret[2], value)
        IN  IF m.err # "" THEN m
            ELSE DictOfObject_from_primitive_loop(
                     SetContent(m.h, a, Put(m.h[a][3], key, m.ret)),
                     a, primitive, i + 1)

DictOfObject_from_primitive(h, a, primitive) ==
    IF ~IsDict(h, primitive) THEN Raise(h, "ValueError")
    ELSE DictOfObject_from_primitive_loop(h, a, primitive, 1)

from_primitive(h, a, primitive) ==
    IF h[a][1] = "obj" THEN StandardObject_from_primitive(h, a, primitive)
    ELSE IF h[a][1] = "lobj" THEN ListOfObject_from_primitive(h, a, primitive)
    ELSE DictOfObject_from_primitive(h, a, primitive)

(***************************************************************************)
(* merge().                                                                *)
(***************************************************************************)
RECURSIVE merge(_, _, _)
RECURSIVE _merge_dict(_, _, _)
RECURSIVE _merge_dict_loop(_, _, _, _, _)
RECURSIVE StandardObject_merge_loop(_, _, _, _)

\* Variant: the overlay's entries are put in front of the current entries.
_merge_list_overlay_first(h, base, overlay) ==
    IF Falsy(h, base)
    THEN Ok(Append(h, <<"list", "", Content(h, overlay)>>), Ref(Len(h) + 1))
    ELSE IF IsList(h, base)
    THEN Ok(SetContent(h, base[2], Content(h, overlay) \o Content(h, base)),
            base)
    ELSE Raise(h, "AttributeError")

\* _merge_list(base, overlay): `base or []`, then list.extend in place.
_merge_list(h, base, overlay) ==
    IF Falsy(h, base)
    THEN Ok(Append(h, <<"list", "", Content(h, overlay)>>), Ref(Len(h) + 1))
    ELSE IF IsList(h, base)
    THEN Ok(SetContent(h, base[2], Content(h, base) \o Content(h, overlay)),
            base)
    ELSE Raise(h, "AttributeError")

\* The body of `for key, val in overlay.items()` for item i and the items
\* after it; n is the size of overlay when the iteration started.
_merge_dict_loop(h, result, overlay, i, n) ==
    IF Len(Content(h, overlay)) # n THEN Raise(h, "RuntimeError")
    ELSE IF i > n THEN Ok(h, result)
    ELSE
    LET key == Content(h, overlay)[i][1]
        val == Content(h, overlay)[i][2]
    IN  IF IsDict(h, val)
        THEN \* node = result.setdefault(key, {})
             IF ~IsDict(h, result) THEN Raise(h, "AttributeError")
             ELSE
             LET h1 == IF HasKey(Content(h, result), key) THEN h
                       ELSE SetContent(Append(h, <<"dict", "", <<>>>>),
                                       result[2],
                                       Put(Content(h, result), key,
                                           Ref(Len(h) + 1)))
                 node == Get(Content(h1, result), key)
             IN  \* node[key]
                 IF ~IsDict(h1, node) THEN Raise(h1, "TypeError")
                 ELSE IF ~HasKey(Content(h1, node), key)
                 THEN Raise(h1, "KeyError")
                 ELSE
                 LET m == _merge_dict(h1, Get(Content(h1, node), key), val)
                 IN  IF m.err # "" THEN m
                     ELSE _merge_dict_loop(
                              SetContent(m.h, result[2],
                                         Put(Content(m.h, result), key, m.ret)),
                              result, overlay, i + 1, n)
        ELSE \* result[key] = val
             IF ~IsDict(h, result) THEN Raise(h, "TypeError")
             ELSE _merge_dict_loop(
                      SetContent(h, result[2],
                                 Put(Content(h, result), key, val)),
                      result, overlay, i + 1, n)

\* _merge_dict(base, overlay): `base or {}`, then the loop.
_merge_dict(h, base, overlay) ==
    IF Falsy(h, base)
    THEN _merge_dict_loop(Append(h, <<"dict", "", <<>>>>), Ref(Len(h) + 1),
                          overlay, 1, Len(Content(h, overlay)))
    ELSE _merge_dict_loop(h, base, overlay, 1, Len(Content(h, overlay)))

\* StandardObject.merge after the isinstance check, from field i on.
StandardObject_merge_loop(h, a, overlay, i) ==
    LET flds == Fields(h[a][2])
    IN  IF i > Len(flds) THEN Ok(h, Ref(a))
        ELSE IF ~hasattr(h, a, flds[i]) \/ ~hasattr(h, overlay[2], flds[i])
        THEN Raise(h, "AttributeError")
        ELSE
        LET attr == getattr(h, a, flds[i])
            overlay_attr == getattr(h, overlay[2], flds[i])
            m == IF IsBaseObject(h, attr)
                 THEN LET r == merge(h, attr[2], overlay_attr)
                      IN  [r EXCEPT !.ret = attr]
                 ELSE IF IsList(h, overlay_attr)
                 THEN _merge_list(h, attr, overlay_attr)
                 ELSE IF IsDict(h, overlay_attr)
                 THEN _merge_dict(h, attr, overlay_attr)
                 ELSE IF overlay_attr # None THEN Ok(h, overlay_attr)
                 ELSE Ok(h, attr)
        IN  IF m.err # "" THEN m
            ELSE StandardObject_merge_loop(setattr(m.h, a, flds[i], m.ret),
                                           a, overlay, i + 1)

StandardObject_merge(h, a, overlay) ==
    IF ~isinstance(h, overlay, h[a][2]) THEN Raise(h, "TypeMismatch")
    ELSE StandardObject_merge_loop(h, a, overlay, 1)

\* ListOfObject.merge: self._data.extend(overlay) walks overlay through
\* __getitem__ and appends the very same item instances.
ListOfObject_merge(h, a, overlay) ==
    IF ~isinstance(h, overlay, h[a][2]) THEN Raise(h, "TypeMismatch")
    ELSE Ok(SetContent(h, a, h[a][3] \o Content(h, overlay)), Ref(a))

\* DictOfObject.merge: after the isinstance check the loop header calls
\* overlay.items(), which DictOfObject does not define.
DictOfObject_merge(h, a, overlay) ==
    IF ~isinstance(h, overlay, h[a][2]) THEN Raise(h, "TypeMismatch")
    ELSE Raise(h, "AttributeError")

merge(h, a, overlay) ==
    IF h[a][1] = "obj" THEN StandardObject_merge(h, a, overlay)
    ELSE IF h[a][1] = "lobj" THEN ListOfObject_merge(h, a, overlay)
    ELSE DictOfObject_merge(h, a, overlay)

(***************************************************************************)
(* The calls a client makes.  slots.r is the receiver of merge, built      *)
(* once; slots.o is the overlay, rebound by every later construction.      *)
(***************************************************************************)
Slots == {"r", "o"}

NoCall ==
    [op |-> "init", cls |-> "", doc |-> None, slot |-> "", recv |-> None,
     overlay |-> None, err |-> "", ret |-> None]

Init ==
    /\ heap = InitHeap
    /\ slots = [s \in Slots |-> None]
    /\ pre = InitHeap
    /\ last = NoCall
    /\ nops = 0
    /\ order \in POrders

\* s = cls().default()
CallDefault(s, cls) ==
    LET n == New(heap, cls)
        m == default(n.h, n.ret[2])
    IN  /\ nops < MaxOps
        /\ heap' = m.h
        /\ slots' = IF m.err = "" THEN [slots EXCEPT ![s] = n.ret] ELSE slots
        /\ pre' = heap
        /\ last' = [op |-> "default", cls |-> cls, doc |-> None, slot |-> s,
                    recv |-> n.ret, overlay |-> None, err |-> m.err,
                    ret |-> m.ret]
        /\ nops' = nops + 1
        /\ UNCHANGED order

\* s = cls(); s.from_primitive(doc)
CallFromPrimitive(s, cls, doc) ==
    LET n == New(heap, cls)
        m == from_primitive(n.h, n.ret[2], doc)
    IN  /\ nops < MaxOps
        /\ heap' = m.h
        /\ slots' = IF m.err = "" THEN [slots EXCEPT ![s] = n.ret] ELSE slots
        /\ pre' = heap
        /\ last' = [op |-> "from_primitive", cls |-> cls, doc |-> doc,
                    slot |-> s, recv |-> n.ret, overlay |-> None,
                    err |-> m.err, ret |-> m.ret]
        /\ nops' = nops + 1
        /\ UNCHANGED order

\* slots.r.merge(overlay)
CallMerge(overlay) ==
    LET m == merge(heap, slots.r[2], overlay)
    IN  /\ nops < MaxOps
        /\ slots.r # None
        /\ heap' = m.h
        /\ pre' = heap
        /\ last' = [op |-> "merge", cls |-> ClassOf(heap, slots.r),
                    doc |-> None, slot |-> "r", recv |-> slots.r,
                    overlay |-> overlay, err |-> m.err, ret |-> m.ret]
        /\ nops' = nops + 1
        /\ UNCHANGED <<slots, order>>

\* The slot the next constructed instance is bound to.
Target == IF slots.r = None THEN "r" ELSE "o"

Next ==
    \/ \E cls \in RootClasses : CallDefault(Target, cls)
    \/ \E ld \in Loads : CallFromPrimitive(Target, ld[1], Doc(ld[2]))
    \/ \E ov \in {slots.o, None} : CallMerge(ov)

Spec == Init /\ [][Next]_vars

TypeOK ==
    /\ nops \in 0..MaxOps
    /\ last.err \in {"", "TypeMismatch", "TypeError", "KeyError",
                     "AttributeError", "ValueError", "RuntimeError"}

(***************************************************************************)
(* Values of trees, for stating the properties: the tree below a value     *)
(* with references followed, mappings as sets of pairs.                    *)
(***************************************************************************)
RECURSIVE DeepVal(_, _)
DeepVal(h, v) ==
    IF ~IsRef(v) THEN v
    ELSE LET c == Content(h, v)
         IN  IF KindOf(h, v) \in {"list", "lobj"}
             THEN <<KindOf(h, v),
                    <<ClassOf(h, v), [i \in 1..Len(c) |-> DeepVal(h, c[i])]>> >>
             ELSE <<KindOf(h, v),
                    <<ClassOf(h, v),
                      {<<c[i][1], DeepVal(h, c[i][2])>> : i \in 1..Len(c)}>> >>

DictVal(entries) == <<"dict", <<"", entries>>>>
ListVal(items) == <<"list", <<"", items>>>>
IsDictVal(d) == d[1] = "dict"
Entries(d) == d[2][2]
KeysOf(entries) == {e[1] : e \in entries}
ValAt(entries, k) == (CHOOSE e \in entries : e[1] = k)[2]

\* The key-by-key recursive merge of two mapping values.
RECURSIVE RecursiveMerge(_, _)
RecursiveMerge(b, o) ==
    DictVal({ <<k,
                IF k \notin KeysOf(Entries(o)) THEN ValAt(Entries(b), k)
                ELSE IF /\ k \in KeysOf(Entries(b))
                        /\ IsDictVal(ValAt(Entries(b), k))
                        /\ IsDictVal(ValAt(Entries(o), k))
                THEN RecursiveMerge(ValAt(Entries(b), k), ValAt(Entries(o), k))
                ELSE ValAt(Entries(o), k)>> :
              k \in KeysOf(Entries(b)) \cup KeysOf(Entries(o)) })

\* The last call was receiver.merge(overlay) on a StandardObject of class
\* cls with an overlay that passes the isinstance check.
MergedStd(cls) ==
    /\ last.op = "merge"
    /\ KindOf(pre, last.recv) = "obj"
    /\ ClassOf(pre, last.recv) = cls
    /\ IsBaseObject(pre, last.overlay)
    /\ ClassOf(pre, last.overlay) \in Subclasses(cls)

\* C1: merging a mapping-valued field completes and leaves the key-by-key
\* recursive merge of the base mapping and the overlay mapping.
C1_MergeDictRecursive ==
    (/\ MergedStd("T")
     /\ IsDict(pre, getattr(pre, last.recv[2], "params"))
     /\ IsDict(pre, getattr(pre, last.overlay[2], "params")))
    => /\ last.err = ""
       /\ DeepVal(heap, getattr(heap, last.recv[2], "params"))
            = RecursiveMerge(
                  DeepVal(pre, getattr(pre, last.recv[2], "params")),
                  DeepVal(pre, getattr(pre, last.overlay[2], "params")))

\* C2: DictOfObject.merge with an overlay of the same type completes and
\* the receiver's key set is the union of the two key sets.
C2_DictOfObjectMerge ==
    (/\ last.op = "merge"
     /\ KindOf(pre, last.recv) = "dobj"
     /\ KindOf(pre, last.overlay) = "dobj"
     /\ ClassOf(pre, last.overlay) = ClassOf(pre, last.recv))
    => /\ last.err = ""
       /\ KeysOf(Entries(DeepVal(heap, last.recv)))
            = KeysOf(Entries(DeepVal(pre, last.recv)))
              \cup KeysOf(Entries(DeepVal(pre, last.overlay)))

\* C3: after StandardObject.merge, a field whose overlay value was a
\* sequence O and whose base value was a sequence B (or None, as empty)
\* holds B's elements followed by O's elements, len(B)+len(O) in all.
ListFieldConcat(f) ==
    LET b == getattr(pre, last.recv[2], f)
        o == getattr(pre, last.overlay[2], f)
        B == IF b = None THEN <<>> ELSE Content(pre, b)
        O == Content(pre, o)
        now == getattr(heap, last.recv[2], f)
    IN  (IsList(pre, o) /\ (b = None \/ IsList(pre, b)))
        => /\ IsList(heap, now)
           /\ Len(Content(heap, now)) = Len(B) + Len(O)
           /\ DeepVal(heap, now)
                = ListVal([i \in 1..(Len(B) + Len(O)) |->
                             IF i <= Len(B) THEN DeepVal(pre, B[i])
                             ELSE DeepVal(pre, O[i - Len(B)])])

C3_ListConcat ==
    (MergedStd("T") /\ last.err = "")
    => \A f \in {"name", "params", "tags", "opts"} : ListFieldConcat(f)

\* a completed merge with a non-empty base list, a different non-empty
\* overlay list, and a field whose base was None and overlay a list
C3_Witness ==
    /\ MergedStd("T") /\ last.err = ""
    /\ IsList(pre, getattr(pre, last.recv[2], "tags"))
    /\ Len(Content(pre, getattr(pre, last.recv[2], "tags"))) = 2
    /\ getattr(pre, last.overlay[2], "tags")
         # getattr(pre, last.recv[2], "tags")
    /\ Len(Content(pre, getattr(pre, last.overlay[2], "tags"))) = 1
    /\ getattr(pre, last.recv[2], "opts") = None
    /\ IsList(pre, getattr(pre, last.overlay[2], "opts"))
    /\ Len(Content(heap, getattr(heap, last.recv[2], "tags"))) = 3

\* The last call built an instance of class cls (default or from_primitive)
\* and returned normally.
Built(cls) ==
    /\ last.op \in {"default", "from_primitive"}
    /\ last.cls = cls
    /\ last.err = ""

\* The value P's own descriptor for x computes for the last construction.
OwnX ==
    IF /\ last.op = "from_primitive"
       /\ GetOrNone(Content(pre, last.doc), "x") # None
    THEN Get(Content(pre, last.doc), "x")
    ELSE IntV(7)

\* C4: after P.default() and P.from_primitive(doc), in every declaration
\* order of P's fields, P.x is the value of P's own descriptor for x and
\* P.y exists and equals the embedded child's y.
C4_EmbeddingPrecedence ==
    Built("P")
    => LET a == last.recv[2]
       IN  /\ hasattr(heap, a, "x") /\ getattr(heap, a, "x") = OwnX
           /\ hasattr(heap, a, "y") /\ hasattr(heap, a, "e")
           /\ getattr(heap, a, "y") = getattr(heap, getattr(heap, a, "e")[2], "y")

\* P declared with x before the embedded field, built from a document
\* without x: the child's x differs from the parent's
C4_Witness ==
    /\ Built("P") /\ last.op = "from_primitive"
    /\ order = <<"x", "e">>
    /\ getattr(heap, last.recv[2], "x") = IntV(7)
    /\ getattr(heap, getattr(heap, last.recv[2], "e")[2], "x") = IntV(1)
    /\ getattr(heap, last.recv[2], "y") = IntV(4)

C6_NoPartialMutation ==
    (/\ last.op = "merge"
     /\ KindOf(pre, last.recv) = "obj"
     /\ last.err = "TypeMismatch")
    => DeepVal(heap, last.recv) = DeepVal(pre, last.recv)

\* C7: receiver.merge(overlay) with an overlay of the receiver's type leaves
\* the overlay's tree with the values it had before the call.
C7_OverlayUnchanged ==
    (/\ last.op = "merge"
     /\ IsBaseObject(pre, last.overlay)
     /\ ClassOf(pre, last.overlay) = ClassOf(pre, last.recv))
    => DeepVal(heap, last.overlay) = DeepVal(pre, last.overlay)

\* C8: DictOfObject.from_primitive returns the receiver, and a Q field
\* declared as ObjectField(D), built from a document with a mapping at d,
\* is the populated DictOfObject holding the document's non-null entries.
C8_DictFromPrimitive ==
    /\ Built("D") /\ last.op = "from_primitive" => last.ret = last.recv
    /\ (/\ Built("Q") /\ last.op = "from_primitive"
        /\ IsDict(pre, GetOrNone(Content(pre, last.doc), "d")))
       => LET d == getattr(heap, last.recv[2], "d")
              src == Content(pre, Get(Content(pre, last.doc), "d"))
          IN  /\ KindOf(heap, d) = "dobj"
              /\ KeysOf(Entries(DeepVal(heap, d)))
                   = {src[i][1] : i \in {j \in 1..Len(src) : src[j][2] # None}}

\* C9: every PrimitiveField's declared default (the list and the mapping
\* included) has the value it had at class definition.
C9_DefaultsImmutable ==
    /\ DeepVal(heap, Fld("T", "tags").default_value)
         = DeepVal(InitHeap, Fld("T", "tags").default_value)
    /\ DeepVal(heap, Fld("T", "params").default_value)
         = DeepVal(InitHeap, Fld("T", "params").default_value)

\* The attribute y hoisted onto the P instance v equals the child's y.
HoistedConsistent(h, v) ==
    /\ hasattr(h, v[2], "y")
    /\ getattr(h, v[2], "y") = getattr(h, getattr(h, v[2], "e")[2], "y")

\* C10 as stated: after construction and any merges, the hoisted attribute
\* of the receiver equals the embedded child's current value.
C10_HoistedConsistent ==
    (/\ KindOf(heap, slots.r) = "obj" /\ ClassOf(heap, slots.r) = "P"
     /\ last.err = "")
    => HoistedConsistent(heap, slots.r)

\* C10 amended: the hoisted attribute equals the child's value when default()
\* or from_primitive() returns, and on an instance that was never the
\* receiver of merge; merge itself never rebinds the hoisted attribute, so it
\* keeps its pre-merge value whatever happens to the child.
C10_HoistedAtConstruction ==
    /\ Built("P") => HoistedConsistent(heap, last.recv)
    /\ (KindOf(heap, slots.o) = "obj" /\ ClassOf(heap, slots.o) = "P")
       => HoistedConsistent(heap, slots.o)
    /\ (last.op = "merge" /\ ClassOf(pre, last.recv) = "P")
       => /\ hasattr(heap, last.recv[2], "y")
          /\ getattr(heap, last.recv[2], "y") = getattr(pre, last.recv[2], "y")

\* a merge into a P instance changed the child's y and not the hoisted y
C10_Witness ==
    /\ last.op = "merge" /\ ClassOf(pre, last.recv) = "P"
    /\ getattr(heap, getattr(heap, last.recv[2], "e")[2], "y")
         # getattr(pre, getattr(pre, last.recv[2], "e")[2], "y")
    /\ getattr(heap, last.recv[2], "y") = getattr(pre, last.recv[2], "y")
    /\ KindOf(heap, slots.o) = "obj" /\ ClassOf(heap, slots.o) = "P"

====
